---- MODULE Spec2Model ----
(***************************************************************************)
(* Model of era5_server.py: three tool operations (inspect_netcdf,         *)
(* fetch_era5_pressure_levels, fetch_era5_single_levels) served by one     *)
(* asyncio event loop that hands blocking work to executor worker threads. *)
(*                                                                         *)
(* A Python str built by an f-string is modelled as the sequence of its    *)
(* fragments (literal parts and formatted values, each a TLA+ string).     *)
(* A filesystem path is the sequence of its components.                    *)
(***************************************************************************)
EXTENDS Integers, Sequences, FiniteSets, TLC

\* ---------------------------------------------------------------- bounds
NumInv == 2
MaxPool == 2

Inv == 1..NumInv

\* ------------------------------------------------------ pure conversions
Digit(d) ==
  CASE d = 0 -> "0" [] d = 1 -> "1" [] d = 2 -> "2" [] d = 3 -> "3"
    [] d = 4 -> "4" [] d = 5 -> "5" [] d = 6 -> "6" [] d = 7 -> "7"
    [] d = 8 -> "8" [] d = 9 -> "9"

RECURSIVE Str(_)
\* str(n) of a Python int: its decimal representation
Str(n) ==
  IF n < 0 THEN "-" \o Str(0 - n)
  ELSE IF n < 10 THEN Digit(n)
  ELSE Str(n \div 10) \o Digit(n % 10)

RECURSIVE TupleItems(_)
TupleItems(t) ==
  IF Len(t) = 0 THEN ""
  ELSE IF Len(t) = 1 THEN "'" \o t[1] \o "'"
  ELSE "'" \o t[1] \o "', " \o TupleItems(Tail(t))

\* format of a Python tuple of str inside an f-string: (), ('a',), ('a', 'b')
TupleRepr(t) ==
  IF Len(t) = 1 THEN "(" \o TupleItems(t) \o ",)"
  ELSE "(" \o TupleItems(t) \o ")"

\* dict.get(key, default) on an attrs mapping
AttrGet(attrs, key, default) ==
  IF key \in DOMAIN attrs THEN attrs[key] ELSE default

\* ------------------------------------------------------------------ paths
Cwd == <<"/", "srv">>

IsAbsolute(p) == Len(p) > 0 /\ p[1] = "/"

\* Path(p).resolve(): an absolute path; a relative one is taken from the cwd
Resolve(p) == IF IsAbsolute(p) THEN p ELSE Cwd \o p

\* Path(p).name: the final component
PathName(p) == p[Len(p)]

RECURSIVE JoinComponents(_)
JoinComponents(p) ==
  IF Len(p) = 0 THEN ""
  ELSE IF Len(p) = 1 THEN p[1]
  ELSE p[1] \o "/" \o JoinComponents(Tail(p))

\* str(path)
PathStr(p) ==
  IF IsAbsolute(p) THEN "/" \o JoinComponents(Tail(p)) ELSE JoinComponents(p)

\* --------------------------------------------- the array files on the disk
DatasetA ==
  [dims   |-> << [name |-> "time", size |-> 12],
                 [name |-> "latitude", size |-> 721],
                 [name |-> "longitude", size |-> 1440] >>,
   coords |-> << [name |-> "time", dims |-> <<"time">>,
                  attrs |-> [units |-> "hours since 1900-01-01"]] >>,
   vars   |-> << [name |-> "t2m", dims |-> <<"time", "latitude", "longitude">>,
                  attrs |-> [long_name |-> "2 metre temperature", units |-> "K"]] >>]

DatasetB ==
  [dims   |-> << [name |-> "valid_time", size |-> 3],
                 [name |-> "pressure_level", size |-> 1] >>,
   coords |-> << [name |-> "pressure_level", dims |-> <<"pressure_level">>,
                  attrs |-> [long_name |-> "pressure", units |-> "hPa"]],
                 [name |-> "number", dims |-> << >>,
                  attrs |-> [long_name |-> "ensemble member numerical id"]] >>,
   vars   |-> << [name |-> "z", dims |-> <<"valid_time", "pressure_level">>,
                  attrs |-> [long_name |-> "Geopotential", units |-> "m**2 s**-2"]] >>]

\* what xr.open_dataset yields for a readable file at path p
Content(p) == IF PathName(p) = "a.nc" THEN DatasetA ELSE DatasetB

\* ---------------------------------------------------- inspection formatter
NotFoundMarker == "Error: File not found at '"
InspectErrorMarker == "Error inspecting NetCDF file: "
CdsErrorMarker == "Error during CDS API request: "
SuccessMarker == "Successfully downloaded data to '"

NotFoundMessage(filepath) == <<NotFoundMarker, PathStr(filepath), "'">>

InspectErrorMessageGeneric(e) == <<InspectErrorMarker, "could not read file">>

InspectErrorMessage(e) == <<InspectErrorMarker, e>>

HeaderLines(filepath) ==
  << <<"--- NetCDF Inspection Summary for ", PathName(filepath), " ---">>,
     <<"\n[Dimensions]">> >>

DimLine(d) == <<"- ", d.name, ": ", Str(d.size)>>

ItemLine(c) ==
  <<"- ", c.name, " (", TupleRepr(c.dims), "): ",
    AttrGet(c.attrs, "long_name", ""), " [", AttrGet(c.attrs, "units", ""), "]">>

BodyLines(ds) ==
  [k \in 1..Len(ds.dims) |-> DimLine(ds.dims[k])]
  \o << <<"\n[Coordinates]">> >>
  \o [k \in 1..Len(ds.coords) |-> ItemLine(ds.coords[k])]
  \o << <<"\n[Variables]">> >>
  \o [k \in 1..Len(ds.vars) |-> ItemLine(ds.vars[k])]
  \o << <<"\n--- End of Summary ---">> >>

RECURSIVE JoinLines(_)
\* "\n".join(lines)
JoinLines(lines) ==
  IF Len(lines) = 0 THEN << >>
  ELSE IF Len(lines) = 1 THEN lines[1]
  ELSE lines[1] \o <<"\n">> \o JoinLines(Tail(lines))

SuccessMessage(output_path, inspection_summary) ==
  <<SuccessMarker, PathStr(output_path), "'.\n\n">> \o inspection_summary

CdsErrorMessageGeneric(e) == <<CdsErrorMarker, "request failed", ".">>

CdsErrorMessage(e) == <<CdsErrorMarker, e, ".">>

\* ---------------------------------------------------------- request builder
PressureDataset == "reanalysis-era5-pressure-levels-monthly-means"
SingleDataset == "reanalysis-era5-single-levels-monthly-means"

\* a year argument is a str or a list of str: [type, items]
YearStr(y) == [type |-> "str", items |-> <<y>>]
YearList(ys) == [type |-> "list", items |-> ys]

PressureLevelsRequestNoLevel(variable, pressure_level, year, month) ==
  [product_type |-> "monthly_averaged_reanalysis",
   variable     |-> variable,
   year         |-> year,
   month        |-> month,
   time         |-> "00:00",
   data_format  |-> "netcdf"]

PressureLevelsRequest(variable, pressure_level, year, month) ==
  [product_type   |-> "monthly_averaged_reanalysis",
   variable       |-> variable,
   pressure_level |-> Str(pressure_level),
   year           |-> year,
   month          |-> month,
   time           |-> "00:00",
   data_format    |-> "netcdf"]

SingleLevelsRequest(variable, year, month) ==
  [product_type |-> "monthly_averaged_reanalysis",
   variable     |-> variable,
   year         |-> year,
   month        |-> month,
   time         |-> "00:00",
   data_format  |-> "netcdf"]

\* positional arguments handed to _internal_fetch_and_inspect
PressureLevelsCallArgs(request, output_filename) ==
  <<PressureDataset, request, output_filename>>

SingleLevelsCallArgs(request, output_filename) ==
  <<SingleDataset, output_filename>>

MissingArgument ==
  "_internal_fetch_and_inspect() missing 1 required positional argument: 'output_filename'"

\* binding of positional arguments to (dataset, request, output_filename)
BindFetchAndInspect(posargs) ==
  IF Len(posargs) = 3
  THEN [ok |-> TRUE, dataset |-> posargs[1], request |-> posargs[2],
        output_filename |-> posargs[3], error |-> ""]
  ELSE [ok |-> FALSE, dataset |-> posargs[1], request |-> posargs[2],
        output_filename |-> << >>, error |-> MissingArgument]

\* ------------------------------------------------- loops, executors, threads
MainLoop == <<"main", 0>>

\* the loop asyncio.run creates inside the download worker of invocation i
NewLoop(i) == <<"inner", i>>

ProcessWideExecutor(loop) == MainLoop

\* loop.run_in_executor(None, f): the default executor belongs to the loop
DefaultExecutor(loop) == loop

MainThread == [kind |-> "loop", pool |-> MainLoop, job |-> 0]
NoThread == [kind |-> "none", pool |-> <<"none", 0>>, job |-> 0]

RunInline(loop, caller, i) == caller

\* the thread that executes f for loop.run_in_executor(None, f)
RunInExecutorThread(loop, caller, i) ==
  [kind |-> "worker", pool |-> DefaultExecutor(loop), job |-> i]

ModuleLevelFrame(i) == 1

\* the activation of _sync_inspect holding the locals ds and summary
Frame(i) == i

\* ------------------------------------------------------------------ inputs
RelFile == <<"data", "a.nc">>
AbsFile == <<"/", "tmp", "b.nc">>

PressureInputs ==
  { [variable |-> "geopotential", pressure_level |-> 500,
     year |-> YearStr("2023"), month |-> "01", output_filename |-> RelFile],
    [variable |-> "temperature", pressure_level |-> 1000,
     year |-> YearList(<<"2021", "2022", "2023">>), month |-> "12",
     output_filename |-> AbsFile] }

SingleInputs ==
  { [variable |-> "2m_temperature", year |-> YearStr("2023"), month |-> "01",
     output_filename |-> RelFile],
    [variable |-> "total_precipitation", year |-> YearStr("2022"), month |-> "07",
     output_filename |-> AbsFile] }

InspectInputs == { Resolve(RelFile), AbsFile }

\* the pressure-levels call of the docstring's multi-year example
LiveInputs == { a \in PressureInputs : a.year.type = "list" }

ClientErrors == { "Missing/incomplete configuration file: /root/.cdsapirc" }
RetrieveErrors == { "401 Client Error: Unauthorized" }
OpenErrors == { "[Errno 2] No such file or directory",
                "did not find a match in any of xarray's currently installed IO backends" }

\* ------------------------------------------------------------------- state
VARIABLES
  poolSize,   \* max_workers of a default executor
  op,         \* op[i]: the tool operation of invocation i
  args,       \* args[i]: its arguments
  pc,         \* pc[i]: position of the invocation's coroutine / download job
  job,        \* job[i]: closure of _blocking_download (dataset, request, output_path)
  thread,     \* thread[i]: thread running _blocking_download
  retrieved,  \* retrieved[i]: the c.retrieve calls made
  ipc,        \* ipc[i]: position of the invocation's _sync_inspect job
  ifile,      \* ifile[i]: filepath of _internal_inspect_netcdf
  ithread,    \* ithread[i]: thread running _sync_inspect
  ds,         \* ds[f]: dataset handle local to frame f
  summary,    \* summary[f]: line list local to frame f
  env,        \* env[i]: outcomes of the external collaborators
  ires,       \* ires[i]: return value of _sync_inspect
  res,        \* res[i]: return value of _blocking_download
  ret         \* ret[i]: how the tool operation ended

vars == <<poolSize, op, args, pc, job, thread, retrieved, ipc, ifile, ithread,
          ds, summary, env, ires, res, ret>>

NoDs == [dims |-> << >>, coords |-> << >>, vars |-> << >>]
NoJob == [dataset |-> "", request |-> [product_type |-> ""], output_path |-> << >>]
NoEnv == [client |-> "none", retrieve |-> "none", exists |-> "none",
          open |-> "none", opens |-> 0]
NoRet == [kind |-> "none", val |-> << >>]
Returned(s) == [kind |-> "str", val |-> s]
Raised(e) == [kind |-> "exc", val |-> <<e>>]

Init ==
  /\ poolSize \in 1..MaxPool
  /\ op = [i \in Inv |-> "none"]
  /\ args = [i \in Inv |-> [output_filename |-> << >>]]
  /\ pc = [i \in Inv |-> "idle"]
  /\ job = [i \in Inv |-> NoJob]
  /\ thread = [i \in Inv |-> NoThread]
  /\ retrieved = [i \in Inv |-> << >>]
  /\ ipc = [i \in Inv |-> "none"]
  /\ ifile = [i \in Inv |-> << >>]
  /\ ithread = [i \in Inv |-> NoThread]
  /\ ds = [f \in Inv |-> NoDs]
  /\ summary = [f \in Inv |-> << >>]
  /\ env = [i \in Inv |-> NoEnv]
  /\ ires = [i \in Inv |-> << >>]
  /\ res = [i \in Inv |-> << >>]
  /\ ret = [i \in Inv |-> NoRet]

\* jobs occupying a worker of executor x
Busy(x) ==
  Cardinality({i \in Inv : pc[i] \in {"client", "retrieve", "inspecting"}
                           /\ thread[i].pool = x})
  + Cardinality({i \in Inv : ipc[i] \in {"exists", "open", "fill"}
                             /\ ithread[i].pool = x})

\* the scheduler thread runs a coroutine step only while nothing blocks it
LoopFree ==
  \A k \in Inv :
    /\ ~(pc[k] \in {"client", "retrieve", "inspecting"} /\ thread[k] = MainThread)
    /\ ~(ipc[k] \in {"exists", "open", "fill"} /\ ithread[k] = MainThread)

\* invocations arrive in index order
MayCall(i) ==
  /\ pc[i] = "idle"
  /\ (IF i = 1 THEN TRUE ELSE pc[i - 1] # "idle")
  /\ LoopFree

\* ------------------------------------------------- _internal_inspect_netcdf
\* runs on `caller` up to the await: _sync_inspect is handed to the running
\* loop's default executor
SubmitInspect(i, loop, caller, filepath) ==
  /\ ipc' = [ipc EXCEPT ![i] = "queued"]
  /\ ifile' = [ifile EXCEPT ![i] = filepath]
  /\ ithread' = [ithread EXCEPT ![i] = RunInExecutorThread(loop, caller, i)]

\* a worker of the executor picks _sync_inspect up
InspectStart(i) ==
  /\ ipc[i] = "queued"
  /\ Busy(ithread[i].pool) < poolSize
  /\ ipc' = [ipc EXCEPT ![i] = "exists"]
  /\ UNCHANGED <<poolSize, op, args, pc, job, thread, retrieved, ifile, ithread,
                 ds, summary, env, ires, res, ret>>

\* if not Path(filepath).exists(): return "Error: File not found ..."
SyncExists(i) ==
  /\ ipc[i] = "exists"
  /\ \E found \in BOOLEAN :
       IF found
       THEN /\ env' = [env EXCEPT ![i].exists = "yes"]
            /\ ipc' = [ipc EXCEPT ![i] = "open"]
            /\ ires' = ires
       ELSE /\ env' = [env EXCEPT ![i].exists = "no"]
            /\ ipc' = [ipc EXCEPT ![i] = "finished"]
            /\ ires' = [ires EXCEPT ![i] = NotFoundMessage(ifile[i])]
  /\ UNCHANGED <<poolSize, op, args, pc, job, thread, retrieved, ifile, ithread,
                 ds, summary, res, ret>>

\* with xr.open_dataset(filepath) as ds: summary = [header, "[Dimensions]"]
\* except Exception as e: return "Error inspecting NetCDF file: ..."
SyncOpen(i) ==
  /\ ipc[i] = "open"
  /\ \E outcome \in {"ok"} \cup OpenErrors :
       /\ env' = [env EXCEPT ![i].open = outcome, ![i].opens = @ + 1]
       /\ IF outcome = "ok"
          THEN /\ ds' = [ds EXCEPT ![Frame(i)] = Content(ifile[i])]
               /\ summary' = [summary EXCEPT ![Frame(i)] = HeaderLines(ifile[i])]
               /\ ipc' = [ipc EXCEPT ![i] = "fill"]
               /\ ires' = ires
          ELSE /\ ires' = [ires EXCEPT ![i] = InspectErrorMessage(outcome)]
               /\ ipc' = [ipc EXCEPT ![i] = "finished"]
               /\ UNCHANGED <<ds, summary>>
  /\ UNCHANGED <<poolSize, op, args, pc, job, thread, retrieved, ifile, ithread,
                 res, ret>>

\* summary.extend(...) ... return "\n".join(summary); the with block closes ds
SyncFill(i) ==
  /\ ipc[i] = "fill"
  /\ ires' = [ires EXCEPT ![i] =
                JoinLines(summary[Frame(i)] \o BodyLines(ds[Frame(i)]))]
  /\ ds' = [ds EXCEPT ![Frame(i)] = NoDs]
  /\ summary' = [summary EXCEPT ![Frame(i)] = << >>]
  /\ ipc' = [ipc EXCEPT ![i] = "finished"]
  /\ UNCHANGED <<poolSize, op, args, pc, job, thread, retrieved, ifile, ithread,
                 env, res, ret>>

\* --------------------------------------------------------- inspect_netcdf
CallInspect(i) ==
  /\ MayCall(i)
  /\ \E filepath \in InspectInputs :
       /\ op' = [op EXCEPT ![i] = "inspect"]
       /\ args' = [args EXCEPT ![i] = [output_filename |-> filepath]]
       /\ SubmitInspect(i, MainLoop, MainThread, filepath)
  /\ pc' = [pc EXCEPT ![i] = "awaitInspect"]
  /\ UNCHANGED <<poolSize, job, thread, retrieved, ds, summary, env, ires, res, ret>>

\* summary = await loop.run_in_executor(...); return summary
ResumeInspect(i) ==
  /\ LoopFree
  /\ pc[i] = "awaitInspect"
  /\ ipc[i] = "finished"
  /\ ret' = [ret EXCEPT ![i] = Returned(ires[i])]
  /\ pc' = [pc EXCEPT ![i] = "done"]
  /\ UNCHANGED <<poolSize, op, args, job, thread, retrieved, ipc, ifile, ithread,
                 ds, summary, env, ires, res>>

\* ------------------------------------------------ _internal_fetch_and_inspect
\* the call with positional arguments posargs, up to the await
FetchAndInspect(i, posargs) ==
  LET b == BindFetchAndInspect(posargs) IN
  IF b.ok
  THEN /\ job' = [job EXCEPT ![i] = [dataset |-> b.dataset, request |-> b.request,
                                     output_path |-> Resolve(b.output_filename)]]
       /\ thread' = [thread EXCEPT ![i] = RunInExecutorThread(MainLoop, MainThread, i)]
       /\ pc' = [pc EXCEPT ![i] = "queued"]
       /\ ret' = ret
  ELSE /\ ret' = [ret EXCEPT ![i] = Raised(b.error)]
       /\ pc' = [pc EXCEPT ![i] = "done"]
       /\ UNCHANGED <<job, thread>>

CallPressure(i, inputs) ==
  /\ MayCall(i)
  /\ \E a \in inputs :
       /\ op' = [op EXCEPT ![i] = "pressure"]
       /\ args' = [args EXCEPT ![i] = a]
       /\ FetchAndInspect(i, PressureLevelsCallArgs(
             PressureLevelsRequest(a.variable, a.pressure_level, a.year, a.month),
             a.output_filename))
  /\ UNCHANGED <<poolSize, retrieved, ipc, ifile, ithread, ds, summary, env,
                 ires, res>>

CallSingle(i) ==
  /\ MayCall(i)
  /\ \E a \in SingleInputs :
       /\ op' = [op EXCEPT ![i] = "single"]
       /\ args' = [args EXCEPT ![i] = a]
       /\ FetchAndInspect(i, SingleLevelsCallArgs(
             SingleLevelsRequest(a.variable, a.year, a.month), a.output_filename))
  /\ UNCHANGED <<poolSize, retrieved, ipc, ifile, ithread, ds, summary, env,
                 ires, res>>

\* a worker of the main loop's executor picks _blocking_download up
DownloadStart(i) ==
  /\ pc[i] = "queued"
  /\ Busy(thread[i].pool) < poolSize
  /\ pc' = [pc EXCEPT ![i] = "client"]
  /\ UNCHANGED <<poolSize, op, args, job, thread, retrieved, ipc, ifile, ithread,
                 ds, summary, env, ires, res, ret>>

\* c = cdsapi.Client()
ClientInit(i) ==
  /\ pc[i] = "client"
  /\ \E outcome \in {"ok"} \cup ClientErrors :
       /\ env' = [env EXCEPT ![i].client = outcome]
       /\ IF outcome = "ok"
          THEN /\ pc' = [pc EXCEPT ![i] = "retrieve"]
               /\ res' = res
          ELSE /\ res' = [res EXCEPT ![i] = CdsErrorMessage(outcome)]
               /\ pc' = [pc EXCEPT ![i] = "finished"]
  /\ UNCHANGED <<poolSize, op, args, job, thread, retrieved, ipc, ifile, ithread,
                 ds, summary, ires, ret>>

\* c.retrieve(dataset, request, str(output_path)); on return
\* asyncio.run(_internal_inspect_netcdf(str(output_path))) starts a loop in this thread
Retrieve(i) ==
  /\ pc[i] = "retrieve"
  /\ retrieved' = [retrieved EXCEPT ![i] =
        Append(@, [dataset |-> job[i].dataset, request |-> job[i].request,
                   target |-> PathStr(job[i].output_path)])]
  /\ \E outcome \in {"ok"} \cup RetrieveErrors :
       /\ env' = [env EXCEPT ![i].retrieve = outcome]
       /\ IF outcome = "ok"
          THEN /\ SubmitInspect(i, NewLoop(i), thread[i], job[i].output_path)
               /\ pc' = [pc EXCEPT ![i] = "inspecting"]
               /\ res' = res
          ELSE /\ res' = [res EXCEPT ![i] = CdsErrorMessage(outcome)]
               /\ pc' = [pc EXCEPT ![i] = "finished"]
               /\ UNCHANGED <<ipc, ifile, ithread>>
  /\ UNCHANGED <<poolSize, op, args, job, thread, ds, summary, ires, ret>>

\* asyncio.run returns inspection_summary; return "Successfully downloaded ..."
InnerReturn(i) ==
  /\ pc[i] = "inspecting"
  /\ ipc[i] = "finished"
  /\ res' = [res EXCEPT ![i] = SuccessMessage(job[i].output_path, ires[i])]
  /\ pc' = [pc EXCEPT ![i] = "finished"]
  /\ UNCHANGED <<poolSize, op, args, job, thread, retrieved, ipc, ifile, ithread,
                 ds, summary, env, ires, ret>>

\* result_message = await loop.run_in_executor(...); return result_message
ResumeFetch(i) ==
  /\ LoopFree
  /\ pc[i] = "finished"
  /\ ret' = [ret EXCEPT ![i] = Returned(res[i])]
  /\ pc' = [pc EXCEPT ![i] = "done"]
  /\ UNCHANGED <<poolSize, op, args, job, thread, retrieved, ipc, ifile, ithread,
                 ds, summary, env, ires, res>>

\* ----------------------------------------------------------- specification
Next ==
  \E i \in Inv :
    \/ CallInspect(i)
    \/ CallPressure(i, PressureInputs)
    \/ CallSingle(i)
    \/ InspectStart(i)
    \/ SyncExists(i)
    \/ SyncOpen(i)
    \/ SyncFill(i)
    \/ ResumeInspect(i)
    \/ DownloadStart(i)
    \/ ClientInit(i)
    \/ Retrieve(i)
    \/ InnerReturn(i)
    \/ ResumeFetch(i)

Spec == Init /\ [][Next]_vars

\* fetch_era5_pressure_levels alone, with the worker threads scheduled fairly
LiveNext ==
  \E i \in Inv :
    \/ CallPressure(i, LiveInputs)
    \/ InspectStart(i)
    \/ SyncExists(i)
    \/ SyncOpen(i)
    \/ SyncFill(i)
    \/ DownloadStart(i)
    \/ ClientInit(i)
    \/ Retrieve(i)
    \/ InnerReturn(i)
    \/ ResumeFetch(i)

Step(i) ==
  \/ InspectStart(i) \/ SyncExists(i) \/ SyncOpen(i) \/ SyncFill(i)
  \/ DownloadStart(i) \/ ClientInit(i) \/ Retrieve(i) \/ InnerReturn(i)
  \/ ResumeFetch(i)

LiveSpec == Init /\ [][LiveNext]_vars /\ \A i \in Inv : WF_vars(Step(i))

\* ------------------------------------------------------- expected results
ExpectedPathStr(p) ==
  CASE p = <<"/", "srv", "data", "a.nc">> -> "/srv/data/a.nc"
    [] p = <<"data", "a.nc">> -> "/srv/data/a.nc"
    [] p = <<"/", "tmp", "b.nc">> -> "/tmp/b.nc"

ExpectedSummaryA ==
  <<"--- NetCDF Inspection Summary for ", "a.nc", " ---", "\n",
    "\n[Dimensions]", "\n",
    "- ", "time", ": ", "12", "\n",
    "- ", "latitude", ": ", "721", "\n",
    "- ", "longitude", ": ", "1440", "\n",
    "\n[Coordinates]", "\n",
    "- ", "time", " (", "('time',)", "): ", "", " [", "hours since 1900-01-01", "]", "\n",
    "\n[Variables]", "\n",
    "- ", "t2m", " (", "('time', 'latitude', 'longitude')", "): ",
          "2 metre temperature", " [", "K", "]", "\n",
    "\n--- End of Summary ---">>

ExpectedSummaryB ==
  <<"--- NetCDF Inspection Summary for ", "b.nc", " ---", "\n",
    "\n[Dimensions]", "\n",
    "- ", "valid_time", ": ", "3", "\n",
    "- ", "pressure_level", ": ", "1", "\n",
    "\n[Coordinates]", "\n",
    "- ", "pressure_level", " (", "('pressure_level',)", "): ", "pressure", " [", "hPa", "]", "\n",
    "- ", "number", " (", "()", "): ", "ensemble member numerical id", " [", "", "]", "\n",
    "\n[Variables]", "\n",
    "- ", "z", " (", "('valid_time', 'pressure_level')", "): ",
          "Geopotential", " [", "m**2 s**-2", "]", "\n",
    "\n--- End of Summary ---">>

ExpectedSummary(p) ==
  IF ExpectedPathStr(p) = "/srv/data/a.nc" THEN ExpectedSummaryA ELSE ExpectedSummaryB

ExpectedLevelStr(n) == CASE n = 500 -> "500" [] n = 1000 -> "1000"

ErrorMarkers == {NotFoundMarker, InspectErrorMarker, CdsErrorMarker}
SectionMarkers == {"\n[Dimensions]", "\n[Coordinates]", "\n[Variables]"}

HasToken(s, T) == \E k \in 1..Len(s) : s[k] \in T

IsFetch(i) == op[i] \in {"pressure", "single"}

\* no external collaborator failed during invocation i
NoExternalFailure(i) ==
  /\ env[i].client \notin ClientErrors
  /\ env[i].retrieve \notin RetrieveErrors
  /\ env[i].exists # "no"
  /\ env[i].open \notin OpenErrors

IsSuccessResult(i) ==
  LET v == ret[i].val
      p == args[i].output_filename IN
  /\ ret[i].kind = "str"
  /\ Len(v) > 3
  /\ v[1] = "Successfully downloaded data to '"
  /\ v[2] = ExpectedPathStr(p)
  /\ v[3] = "'.\n\n"
  /\ SubSeq(v, 4, Len(v)) = ExpectedSummary(p)

\* ------------------------------------------------------------------ claims

\* C1: every invocation of a tool operation ends by returning a string; none
\* ends with an exception leaving the tool operation.
C1_AlwaysReturnsString ==
  \A i \in Inv : pc[i] = "done" => ret[i].kind = "str"

\* C2: when no external collaborator fails (the retrieval succeeds and the
\* file at the output path is readable), a finished fetch of either kind
\* returned the success marker with the resolved path followed by the
\* inspection summary of the file.
C2_FetchSucceeds ==
  \A i \in Inv :
    (IsFetch(i) /\ pc[i] = "done" /\ NoExternalFailure(i)) => IsSuccessResult(i)

\* C3: every retrieval call made for fetch_era5_pressure_levels carries the
\* pressure-levels dataset, the resolved output path and a query with exactly
\* the seven keys, pressure_level as the decimal string, year unchanged; and
\* once the client exists and retrieve has run, exactly that call was made.
C3_PressureRetrieveCall ==
  \A i \in Inv :
    op[i] = "pressure" =>
      /\ \A k \in 1..Len(retrieved[i]) :
           LET c == retrieved[i][k]
               a == args[i] IN
           /\ c.dataset = "reanalysis-era5-pressure-levels-monthly-means"
           /\ c.target = ExpectedPathStr(a.output_filename)
           /\ DOMAIN c.request = {"product_type", "variable", "pressure_level",
                                  "year", "month", "time", "data_format"}
           /\ c.request.product_type = "monthly_averaged_reanalysis"
           /\ c.request.variable = a.variable
           /\ c.request.pressure_level = ExpectedLevelStr(a.pressure_level)
           /\ c.request.year = a.year
           /\ c.request.month = a.month
           /\ c.request.time = "00:00"
           /\ c.request.data_format = "netcdf"
      /\ env[i].retrieve # "none" => Len(retrieved[i]) = 1

C3_Witness ==
  \E i \in Inv :
    /\ op[i] = "pressure"
    /\ args[i].year.type = "list"
    /\ args[i].pressure_level = 1000
    /\ Len(retrieved[i]) = 1
    /\ pc[i] = "done"

\* C4: a finished fetch_era5_single_levels made one retrieval call with the
\* single-levels dataset, the six-key query built from its arguments and the
\* resolved output path, and inspected the output file after a successful
\* retrieval.
C4_SingleRetrieveCall ==
  \A i \in Inv :
    (op[i] = "single" /\ pc[i] = "done") =>
      /\ Len(retrieved[i]) = 1
      /\ retrieved[i][1].dataset = "reanalysis-era5-single-levels-monthly-means"
      /\ retrieved[i][1].target = ExpectedPathStr(args[i].output_filename)
      /\ retrieved[i][1].request =
           [product_type |-> "monthly_averaged_reanalysis",
            variable |-> args[i].variable, year |-> args[i].year,
            month |-> args[i].month, time |-> "00:00", data_format |-> "netcdf"]
      /\ env[i].retrieve = "ok" => env[i].exists # "none"

\* C5: inspect_netcdf on a missing path returns the 'File not found' message
\* naming the path, the same on every repetition, without opening the file;
\* when the open fails with e it returns the 'Error inspecting NetCDF file'
\* message with e; neither result holds a summary section or is an exception.
C5_InspectFailures ==
  \A i \in Inv :
    (op[i] = "inspect" /\ pc[i] = "done") =>
      /\ env[i].exists = "no" =>
           /\ ret[i] = Returned(<<"Error: File not found at '",
                                  ExpectedPathStr(args[i].output_filename), "'">>)
           /\ env[i].opens = 0
           /\ \A j \in Inv :
                (op[j] = "inspect" /\ pc[j] = "done" /\ env[j].exists = "no"
                 /\ args[j] = args[i]) => ret[j] = ret[i]
      /\ (env[i].exists = "yes" /\ env[i].open \in OpenErrors) =>
           ret[i] = Returned(<<"Error inspecting NetCDF file: ", env[i].open>>)
      /\ (env[i].exists = "no" \/ env[i].open \in OpenErrors) =>
           /\ ret[i].kind = "str"
           /\ ~HasToken(ret[i].val, SectionMarkers)

C5_Witness ==
  \E i, j \in Inv :
    /\ op[i] = "inspect" /\ pc[i] = "done" /\ env[i].exists = "no"
    /\ op[j] = "inspect" /\ pc[j] = "done" /\ env[j].exists = "yes"
    /\ env[j].open = "[Errno 2] No such file or directory"

\* C6: a fetch makes at most one retrieval call; when the client construction
\* or the retrieval raises e, no inspection is ever started and the invocation
\* returns 'Error during CDS API request: <e>.'.
C6_FailedDownloadTerminal ==
  \A i \in Inv :
    IsFetch(i) =>
      /\ Len(retrieved[i]) <= 1
      /\ (env[i].client \in ClientErrors \/ env[i].retrieve \in RetrieveErrors) =>
           /\ ipc[i] = "none"
           /\ env[i].exists = "none"
           /\ env[i].opens = 0
           /\ pc[i] \in {"finished", "done"}
           /\ Len(retrieved[i]) = (IF env[i].client \in ClientErrors THEN 0 ELSE 1)
           /\ pc[i] = "done" =>
                ret[i] = Returned(<<"Error during CDS API request: ",
                                    (IF env[i].client \in ClientErrors
                                     THEN env[i].client ELSE env[i].retrieve), ".">>)

C6_Witness ==
  \E i, j \in Inv :
    /\ op[i] = "pressure" /\ pc[i] = "done" /\ env[i].client \in ClientErrors
    /\ op[j] = "pressure" /\ pc[j] = "done" /\ env[j].retrieve \in RetrieveErrors

\* C7: a string returned by a fetch holds the success marker or an error
\* marker, never both.
C7_SuccessXorFailure ==
  \A i \in Inv :
    (IsFetch(i) /\ ret[i].kind = "str") =>
      /\ HasToken(ret[i].val, {SuccessMarker}) \/ HasToken(ret[i].val, ErrorMarkers)
      /\ ~(HasToken(ret[i].val, {SuccessMarker}) /\ HasToken(ret[i].val, ErrorMarkers))

\* C8: an inspect_netcdf invocation that opened its file returns exactly the
\* summary of that file, whatever the other invocations do meanwhile.
C8_ConcurrentInspectIsolated ==
  \A i \in Inv :
    (op[i] = "inspect" /\ pc[i] = "done" /\ env[i].open = "ok") =>
      ret[i] = Returned(ExpectedSummary(args[i].output_filename))

C8_Witness ==
  \E i, j \in Inv :
    /\ j < i
    /\ op[i] = "inspect" /\ op[j] = "inspect"
    /\ args[i] # args[j]
    /\ ipc[j] = "fill"
    /\ pc[i] = "done" /\ env[i].open = "ok"

DownloadPending(i) == pc[i] \in {"client", "retrieve"}

C10_FetchesTerminate ==
  []<>(\A i \in Inv : op[i] = "pressure" => (pc[i] = "done" /\ ret[i].kind = "str"))

C10_Witness ==
  \E i, j \in Inv :
    /\ poolSize = 1
    /\ pc[i] = "inspecting" /\ ipc[i] \in {"exists", "open", "fill"}
    /\ pc[j] = "queued"

====
